---- MODULE Spec2Model ----
(***************************************************************************)
(* Process topology of libafl/src/events/launcher.rs: Launcher (fork and   *)
(* re-exec builds of launch_with_hooks) and CentralizedLauncher            *)
(* (launch_generic).  Every OS process that executes a launch call is one  *)
(* entry of `procs`; a fork copies the forking entry, a re-exec spawn      *)
(* starts a fresh entry that inherits only the environment marker.         *)
(***************************************************************************)
EXTENDS Integers, Sequences, FiniteSets

\* ---------------------------------------------------------------- bounds
\* largest core id: of the ids a caller may put into Cores.ids and of the
\* CoreIds get_core_ids() may return
MaxCoreId == 2
\* get_core_ids().len() of the machine: the spawn loops run over the
\* positions 0..NumCores-1 of that list
NumCores == 2
\* process limit of the machine: fork()/spawn() fail once it is reached
MaxProcs == 4
\* number of launch calls the program makes in one process
MaxLaunches == 2
\* number of entries of Cores.ids that repeat an earlier entry
MaxRepeats == 1

\* ------------------------------------------------------- program constants
\* #[builder(default = 10)] launch_delay: u64
DefaultLaunchDelay == 10
\* std::thread::sleep(Duration::from_millis(10)) after the centralized fork
CentralizedBrokerPause == 10

VARIABLES
    cfg,    \* the launcher struct as built by the caller + the environment
    procs   \* procs[pid]: the local state of every process that exists

vars == <<cfg, procs>>

\* ------------------------------------------------------------ pure helpers
\* A character of an environment string: a decimal digit, 11 for '+', or 10
\* for any other character.
NonDigit == 10

\* usize::to_string for the values the loop variable `id` takes
RECURSIVE ToString(_)
ToString(n) == IF n < 10 THEN <<n>> ELSE Append(ToString(n \div 10), n % 10)

\* the character '+', which usize::from_str accepts as a leading sign
PlusSign == 11

\* the digits of an environment string after its optional leading '+'
Digits(s) == IF Len(s) > 0 /\ s[1] = PlusSign THEN Tail(s) ELSE s

\* the decimal digits of usize::MAX on a 64-bit target
UsizeMaxDigits == <<1, 8, 4, 4, 6, 7, 4, 4, 0, 7, 3, 7, 0, 9, 5, 5, 1, 6, 1, 5>>

\* a digit string without its leading zeros
RECURSIVE StripZeros(_)
StripZeros(d) == IF Len(d) > 0 /\ d[1] = 0 THEN StripZeros(Tail(d)) ELSE d

\* digit strings of equal length: a is the greater number
GreaterDigits(a, b) ==
    \E i \in 1..Len(a) : a[i] > b[i] /\ \A j \in 1..(i - 1) : a[j] = b[j]

\* the checked multiply-and-add of usize::from_str overflows: the value of
\* the digit string is above usize::MAX
Overflows(d) ==
    LET n == StripZeros(d) IN
    \/ Len(n) > Len(UsizeMaxDigits)
    \/ Len(n) = Len(UsizeMaxDigits) /\ GreaterDigits(n, UsizeMaxDigits)

\* (variant of ParseOk that accepts every non-empty string)
ParseOk_AnyText(s) == Len(s) > 0

\* str::parse::<usize>: Ok only for an optional '+' followed by one or more
\* decimal digits whose value fits a usize (PosOverflow otherwise)
ParseOk(s) ==
    LET d == Digits(s) IN
    /\ Len(d) > 0 /\ \A i \in 1..Len(d) : d[i] \in 0..9
    /\ ~Overflows(d)

RECURSIVE ParseDigits(_)
ParseDigits(d) == IF Len(d) = 0 THEN 0
                  ELSE 10 * ParseDigits(SubSeq(d, 1, Len(d) - 1)) + d[Len(d)]

ParseVal(s) == ParseDigits(Digits(s))

\* the environment variable AFL_LAUNCHER_CLIENT of one process
MarkerAbsent == [state |-> "absent", text |-> <<>>]
MarkerSet(s) == [state |-> "set", text |-> s]
MarkerNonUnicode == [state |-> "nonunicode", text |-> <<>>]

\* (variant of Requested that maps a requested id beyond the machine onto an
\* existing core)
Requested_Modulo(id) == \E x \in cfg.cores : x % NumCores = id

\* `self.cores.ids.iter().any(|&x| x == id.into())`
Requested(id) == id \in cfg.cores

\* `self.cores.ids.len()`
CoresLen == Cardinality(cfg.cores) + cfg.repeats

\* the next iteration of `for (id, _) in core_ids.iter().enumerate()` at or
\* after `from` whose `if` is taken; NumCores when the loop runs out
NextRequested(from) ==
    IF \E i \in from..(NumCores - 1) : Requested(i)
    THEN CHOOSE i \in from..(NumCores - 1) :
             Requested(i) /\ \A j \in from..(NumCores - 1) : Requested(j) => i <= j
    ELSE NumCores

\* (variant of ForkRedirect that does not look at the debug override)
ForkRedirect_IgnoreDebug(debug_output, opened_stdout, opened_stderr) ==
    IF opened_stdout
    THEN [stdout |-> "stdout_file",
          stderr |-> IF opened_stderr THEN "stderr_file" ELSE "stdout_file"]
    ELSE [stdout |-> "inherit", stderr |-> "inherit"]

\* the dup2 calls of a duplicated worker (fork and centralized paths)
ForkRedirect(debug_output, opened_stdout, opened_stderr) ==
    IF ~debug_output /\ opened_stdout
    THEN [stdout |-> "stdout_file",
          stderr |-> IF opened_stderr THEN "stderr_file" ELSE "stdout_file"]
    ELSE [stdout |-> "inherit", stderr |-> "inherit"]

\* (variant of ReexecStdio that forwards the parent's streams only when both
\* files are configured)
ReexecStdio_BothFiles(debug_output, stdout_file, stderr_file) ==
    IF debug_output THEN "inherit"
    ELSE IF stdout_file /\ stderr_file THEN "inherit" ELSE "null"

\* the Stdio handed to a re-exec child
ReexecStdio(debug_output, stdout_file, stderr_file) ==
    IF debug_output THEN "inherit"
    ELSE IF stdout_file \/ stderr_file THEN "inherit" ELSE "null"

\* `*bind_to` in the iteration `id` of
\* `for (id, bind_to) in core_ids.iter().enumerate()`
CoreAt(id) == cfg.core_ids[id + 1]

Pids == 1..Len(procs)

Finished(q) == procs[q].pc = "done"

\* launch has returned in process q, or q ended inside its callback
Ended(q) == Finished(q) \/ procs[q].exited

\* The status a wait call leaves in `status` / `ecode`: 0, or 1 for any
\* non-zero value.  It is the exit code the program chooses after launch has
\* returned, which launch does not determine, and it stays 0 when waitpid
\* fails.
ExitStatuses == {0, 1}

\* ------------------------------------------------------------------ state
Paths == {"fork", "reexec", "centralized"}

\* the text "18446744073709551616", usize::MAX + 1
UsizeMaxPlusOne == <<1, 8, 4, 4, 6, 7, 4, 4, 0, 7, 3, 7, 0, 9, 5, 5, 1, 6, 1, 6>>

RootMarkers == {MarkerAbsent, MarkerSet(ToString(0)), MarkerSet(<<PlusSign, 1>>),
                MarkerSet(<<NonDigit>>), MarkerSet(<<PlusSign>>), MarkerSet(<<>>),
                MarkerSet(UsizeMaxPlusOne), MarkerNonUnicode}

\* the state of a process that enters launch with the given environment
NewProc(parent, marker, c) ==
    [pc |-> "entry", parent |-> parent, marker |-> marker,
     run_client |-> c.run_client,
     main_run_client |-> c.main_run_client,
     secondary_run_client |-> c.secondary_run_client,
     main_inner_mgr_builder |-> TRUE,
     secondary_inner_mgr_builder |-> TRUE,
     opened_stdout_file |-> FALSE, opened_stderr_file |-> FALSE,
     debug_output |-> FALSE,
     handles |-> <<>>, id |-> 0, index |-> 0,
     role |-> "none", bind_to |-> -1, is_main |-> FALSE, slept |-> -1,
     stdout |-> "inherit", stderr |-> "inherit",
     endpoint |-> "none", c_mgr |-> "none", brokers |-> 0,
     exit_cleanly_after |-> 0,
     killed |-> <<>>, kill_failed |-> {}, waited |-> <<>>, statuses |-> <<>>,
     logged |-> <<>>,
     result |-> "none", exited |-> FALSE, trace |-> <<>>,
     earlier |-> <<>>, sent |-> {}]

\* the lists get_core_ids() may return: the CoreIds the process may run on,
\* in ascending order, which are 0, 1, .. only when no affinity mask is set
CoreIdLists ==
    {s \in [1..NumCores -> 0..MaxCoreId] : \A i \in 1..(NumCores - 1) : s[i] < s[i + 1]}

\* Cores.ids is a list: `cores` holds the ids that occur in it, `repeats` the
\* number of entries that repeat an earlier one.  The code reads the list
\* through is_empty(), len() and iter().any() only.
Configs ==
    [path : Paths,
     core_ids : CoreIdLists,
     cores : SUBSET (0..MaxCoreId),
     repeats : 0..MaxRepeats,
     run_client : BOOLEAN,
     main_run_client : BOOLEAN,
     secondary_run_client : BOOLEAN,
     spawn_broker : BOOLEAN,
     launch_delay : {DefaultLaunchDelay},
     stdout_file : BOOLEAN,
     stderr_file : BOOLEAN,
     debug_env : BOOLEAN]

\* fields a path does not have keep their builder default; an empty list
\* has no repeated entry
WellFormed(c) ==
    /\ c.cores = {} => c.repeats = 0
    /\ c.path = "centralized" => ~c.run_client
    /\ c.path # "centralized" => ~c.main_run_client /\ ~c.secondary_run_client

\* the first process enters launch with one of the configurations in C
InitOver(C) ==
    /\ cfg \in {c \in C : WellFormed(c)}
    /\ \E m \in RootMarkers :
         /\ cfg.path # "reexec" => m = MarkerAbsent
         /\ procs = <<NewProc(0, m, cfg)>>

\* every topology, with at most the stdout redirection configured
Init == InitOver({c \in Configs : ~c.stderr_file /\ ~c.debug_env})

\* ---------------------------------------------------------------- updates
Finish(r, res) == [r EXCEPT !.pc = "done", !.result = res]

Log(r, evs) == [r EXCEPT !.trace = r.trace \o evs]

Set(p, r) == procs' = [procs EXCEPT ![p] = r]

SetAndSpawn(p, r, child) == procs' = Append([procs EXCEPT ![p] = r], child)

\* ------------------------------------------------- process duplication
\* One duplication point as the forking process executes it: pre_fork()?,
\* fork()?, then in the Parent arm post_fork(false)? and handles.push.
\* `r` is the forking process just before pre_fork, `pushed` is the same
\* process after the push, `child` the new process image.
Duplicate_NoPreFork(p, r, pushed, child) ==
    \/ Set(p, Finish(Log(r, <<"fork_failed">>), "Err_os"))
    \/ /\ Len(procs) < MaxProcs
       /\ \/ SetAndSpawn(p, Finish(Log(r, <<"fork", "post_fork_false">>), "Err_os"), child)
          \/ SetAndSpawn(p, Log(pushed, <<"fork", "post_fork_false", "push">>), child)

Duplicate(p, r, pushed, child) ==
    \/ Set(p, Finish(Log(r, <<"pre_fork">>), "Err_os"))
    \/ Set(p, Finish(Log(r, <<"pre_fork", "fork_failed">>), "Err_os"))
    \/ /\ Len(procs) < MaxProcs
       /\ \/ SetAndSpawn(p, Finish(Log(r, <<"pre_fork", "fork", "post_fork_false">>),
                                   "Err_os"), child)
          \/ SetAndSpawn(p, Log(pushed, <<"pre_fork", "fork", "post_fork_false", "push">>),
                         child)

\* the image fork() returns ForkResult::Child in: a copy of the forking
\* process (the launch calls its program has made included), taken before
\* the Parent arm runs
ChildImage(p, r, at) ==
    [r EXCEPT !.pc = at, !.parent = p, !.trace = <<>>, !.sent = {},
              !.role = "none", !.bind_to = -1, !.is_main = FALSE, !.slept = -1,
              !.endpoint = "none", !.c_mgr = "none", !.brokers = 0]

\* ------------------------------------------------- Launcher, fork build
\* (variant of ForkValidate in which a configured stderr file alone also
\* counts as an open stdout file)
ForkValidate_StderrAlone(p) ==
    LET r == procs[p] IN
    /\ cfg.path = "fork" /\ r.pc = "entry"
    /\ IF cfg.cores = {} THEN Set(p, Finish(r, "Err_illegal_argument"))
       ELSE IF ~r.run_client THEN Set(p, Finish(r, "Err_illegal_argument"))
       ELSE \/ Set(p, Finish(Log(r, <<"get_core_ids">>), "panic"))
            \/ /\ cfg.stdout_file \/ cfg.stderr_file
               /\ Set(p, Finish(Log(r, <<"get_core_ids", "File::create">>), "panic"))
            \/ /\ cfg.stderr_file
               /\ Set(p, Finish([Log(r, <<"get_core_ids", "File::create">>) EXCEPT
                                   !.opened_stdout_file = TRUE], "panic"))
            \/ Set(p, [Log(r, <<"get_core_ids">>) EXCEPT
                         !.pc = "loop", !.role = "parent",
                         !.opened_stdout_file = cfg.stdout_file \/ cfg.stderr_file,
                         !.opened_stderr_file = cfg.stderr_file,
                         !.debug_output = cfg.debug_env,
                         !.index = 0, !.id = NextRequested(0)])
    /\ UNCHANGED cfg

\* launch_with_hooks up to the spawn loop; File::create(..).unwrap() runs for
\* stdout_file first and only then for stderr_file, so a panic at the second
\* leaves opened_stdout_file filled
ForkValidate(p) ==
    LET r == procs[p] IN
    /\ cfg.path = "fork" /\ r.pc = "entry"
    /\ IF cfg.cores = {} THEN Set(p, Finish(r, "Err_illegal_argument"))
       ELSE IF ~r.run_client THEN Set(p, Finish(r, "Err_illegal_argument"))
       ELSE \/ Set(p, Finish(Log(r, <<"get_core_ids">>), "panic"))
            \/ /\ cfg.stdout_file
               /\ Set(p, Finish(Log(r, <<"get_core_ids", "File::create">>), "panic"))
            \/ /\ cfg.stderr_file
               /\ Set(p, Finish([Log(r, <<"get_core_ids", "File::create">>) EXCEPT
                                   !.opened_stdout_file = cfg.stdout_file], "panic"))
            \/ Set(p, [Log(r, <<"get_core_ids">>) EXCEPT
                         !.pc = "loop", !.role = "parent",
                         !.opened_stdout_file = cfg.stdout_file,
                         !.opened_stderr_file = cfg.stderr_file,
                         !.debug_output = cfg.debug_env,
                         !.index = 0, !.id = NextRequested(0)])
    /\ UNCHANGED cfg

\* one taken iteration of the spawn loop, in the forking process
ForkSpawn(p) ==
    LET r  == procs[p]
        r1 == [r EXCEPT !.index = r.index + 1]
    IN
    /\ cfg.path = "fork" /\ r.pc = "loop" /\ r.id < NumCores
    /\ Duplicate(p, r1,
                 [r1 EXCEPT !.handles = Append(r.handles, Len(procs) + 1),
                            !.id = NextRequested(r.id + 1)],
                 ChildImage(p, r1, "child"))
    /\ UNCHANGED cfg

\* the streams a worker is left with when one of its dup2 calls fails: the
\* first call leaves both as they were, the second leaves stdout redirected
RedirectFailures(r, io) ==
    IF io.stdout = "inherit" THEN {}
    ELSE {[stdout |-> r.stdout, stderr |-> r.stderr],
          [stdout |-> io.stdout, stderr |-> r.stderr]}

\* the ForkResult::Child arm up to its sleep: post_fork(true)?
ForkChild(p) ==
    LET r  == procs[p]
        r1 == Log(r, <<"post_fork_true">>)
    IN
    /\ cfg.path = "fork" /\ r.pc = "child"
    /\ \/ Set(p, Finish(r1, "Err_os"))
       \/ Set(p, [r1 EXCEPT !.pc = "sleep"])
    /\ UNCHANGED cfg

\* the sleep of index * launch_delay is over: the dup2 calls, up to the
\* client build, which blocks until it is connected to a broker
ForkChildSetup(p) ==
    LET r   == procs[p]
        io  == ForkRedirect(r.debug_output, r.opened_stdout_file, r.opened_stderr_file)
        r2  == [Log(r, <<"sleep">>) EXCEPT !.slept = r.index * cfg.launch_delay]
        r3  == Log(r2, <<"redirect">>)
    IN
    /\ cfg.path = "fork" /\ r.pc = "sleep"
    /\ \/ \E f \in RedirectFailures(r, io) :
            Set(p, Finish([r3 EXCEPT !.stdout = f.stdout, !.stderr = f.stderr], "Err_os"))
       \/ Set(p, [r3 EXCEPT !.stdout = io.stdout, !.stderr = io.stderr,
                            !.pc = "connect"])
    /\ UNCHANGED cfg

\* `builder.build().launch()?` returns, then the call of the client callback
ForkChildConnect(p) ==
    LET r   == procs[p]
        r4  == [Log(r, <<"build_client">>) EXCEPT
                  !.role = "client", !.bind_to = CoreAt(r.id)]
    IN
    /\ cfg.path = "fork" /\ r.pc = "connect"
    /\ \/ Set(p, Finish(r4, "Err_os"))
       \/ IF r.run_client
          THEN Set(p, [Log(r4, <<"run_client">>) EXCEPT
                         !.endpoint = "connected", !.run_client = FALSE,
                         !.pc = "callback"])
          ELSE Set(p, Finish([r4 EXCEPT !.endpoint = "disconnected"], "panic"))
    /\ UNCHANGED cfg

\* (variant of ForkClientReturn in which Ok falls through to the next loop
\* iteration instead of returning)
ForkClientReturn_FallThrough(p) ==
    LET r == procs[p]
        r1 == [r EXCEPT !.endpoint = "disconnected"]
    IN
    /\ cfg.path = "fork" /\ r.pc = "callback" /\ ~r.exited
    /\ \/ \E res \in {"Err_callback", "panic"} : Set(p, Finish(r1, res))
       \/ Set(p, [r1 EXCEPT !.pc = "loop", !.id = NextRequested(r.id + 1)])
    /\ UNCHANGED cfg

\* the client callback returns and launch_with_hooks returns its result, or
\* the callback panics and launch_with_hooks unwinds; either way the client
\* endpoint the callback owned is dropped
ForkClientReturn(p) ==
    LET r == procs[p] IN
    /\ cfg.path = "fork" /\ r.pc = "callback" /\ ~r.exited
    /\ \E res \in {"Ok", "Err_callback", "panic"} :
         Set(p, Finish([r EXCEPT !.endpoint = "disconnected"], res))
    /\ UNCHANGED cfg

\* The client callback, the caller's code, ends the process instead of
\* returning (std::process::exit, abort): launch never returns in it, no
\* destructor runs, and the process is gone for whoever waits on its pid.
CallbackExits(p) ==
    LET r == procs[p] IN
    /\ r.pc = "callback" /\ ~r.exited
    /\ Set(p, [r EXCEPT !.exited = TRUE])
    /\ UNCHANGED cfg

\* ------------------------------------------------- broker-or-wait branch
\* The broker run returns once exit_cleanly_after clients have disconnected.
QuotaReached(p) ==
    Cardinality({q \in Pids : procs[q].endpoint = "disconnected"})
        >= procs[p].exit_cleanly_after

Range(s) == {s[i] : i \in 1..Len(s)}

\* the RestartingMgr builder with ManagerKind::Broker and
\* exit_cleanly_after(Some(NonZeroUsize::try_from(self.cores.ids.len()).unwrap()))
BuildBroker(r) ==
    [Log(r, <<"build_broker">>) EXCEPT
       !.pc = "broker", !.brokers = r.brokers + 1,
       !.exit_cleanly_after = CoresLen]

\* `libc::kill(*handle, libc::SIGINT)` for every handle; the return value is
\* ignored, `failed` holds the handles the call failed for
KillAll(r, failed) ==
    [Log(r, <<"broker_returned", "kill">>) EXCEPT
       !.killed = r.handles, !.kill_failed = failed]

\* one iteration of a wait loop on the handle h, which leaves `status`
WaitOne(r, h, status) ==
    [r EXCEPT !.waited = Append(r.waited, h),
              !.statuses = Append(r.statuses, status),
              !.logged = IF status # 0 THEN Append(r.logged, h) ELSE r.logged]

\* a wait call of process p returns because h has ended: the process h is
\* gone from then on (`r` is p after the call)
Reap(p, r, h) ==
    procs' = [procs EXCEPT ![p] = r, ![h] = [@ EXCEPT !.exited = TRUE]]

\* `if self.spawn_broker { build } else { wait }` after the spawn loop
ForkBrokerOrWait(p) ==
    LET r == procs[p] IN
    /\ cfg.path = "fork" /\ r.pc = "loop" /\ r.id = NumCores
    /\ IF cfg.spawn_broker THEN Set(p, BuildBroker(r))
       ELSE IF r.handles = <<>> THEN Set(p, Finish(r, "Ok"))
       ELSE Set(p, [r EXCEPT !.pc = "wait"])
    /\ UNCHANGED cfg

\* (variant of BrokerFail that signals the recorded handles before it
\* returns the error)
BrokerFail_KillAll(p) ==
    LET r == procs[p] IN
    /\ r.pc = "broker"
    /\ Set(p, Finish([Log(r, <<"broker_failed">>) EXCEPT !.killed = r.handles],
                      "Err_os"))
    /\ UNCHANGED cfg

\* builder.build().launch()? returns an error
BrokerFail(p) ==
    LET r == procs[p] IN
    /\ r.pc = "broker"
    /\ Set(p, Finish(Log(r, <<"broker_failed">>), "Err_os"))
    /\ UNCHANGED cfg

\* the broker run returns Ok: SIGINT to every handle, then Ok(())
ForkBrokerExit(p) ==
    LET r == procs[p] IN
    /\ cfg.path = "fork" /\ r.pc = "broker" /\ QuotaReached(p)
    /\ \E failed \in SUBSET Range(r.handles) :
         Set(p, Finish(KillAll(r, failed), "Ok"))
    /\ UNCHANGED cfg

\* one iteration of the waitpid loop.  The value waitpid returns is not
\* looked at: the call reports the end of the child, or it fails (EINTR when
\* a signal handler runs in the caller) while the child is still running
\* and leaves `status` at 0; the loop goes on to the next handle either way.
ForkWait(p) ==
    LET r == procs[p]
        k == Len(r.waited) + 1
        h == r.handles[k]
        after(status) == IF k = Len(r.handles) THEN Finish(WaitOne(r, h, status), "Ok")
                         ELSE WaitOne(r, h, status)
    IN
    /\ cfg.path = "fork" /\ r.pc = "wait"
    /\ \/ /\ Ended(h)
          /\ \E status \in ExitStatuses : Reap(p, after(status), h)
       \/ Set(p, after(0))
    /\ UNCHANGED cfg

\* ---------------------------------------------- Launcher, re-exec build
\* launch_with_hooks from entry to the spawn loop (parent role) or to the
\* client build (client role)
ReexecEntry(p) ==
    LET r    == procs[p]
        io   == ForkRedirect(cfg.debug_env, cfg.stdout_file, cfg.stderr_file)
        g    == [Log(r, <<"get_core_ids">>) EXCEPT !.debug_output = cfg.debug_env]
    IN
    /\ cfg.path = "reexec" /\ r.pc = "entry"
    /\ CASE r.marker.state = "set" ->
              IF ~ParseOk(r.marker.text) THEN Set(p, Finish(r, "Err_parse"))
              ELSE Set(p, [r EXCEPT !.pc = "connect"])
         [] r.marker.state = "absent" ->
              \/ Set(p, Finish(Log(r, <<"get_core_ids">>), "panic"))
              \/ /\ ~cfg.debug_env /\ (cfg.stdout_file \/ cfg.stderr_file)
                 /\ Set(p, Finish(Log(g, <<"File::create">>), "panic"))
              \/ \E f \in RedirectFailures(r, io) :
                   Set(p, Finish([Log(g, <<"redirect">>) EXCEPT
                                    !.stdout = f.stdout, !.stderr = f.stderr], "Err_os"))
              \/ Set(p, [g EXCEPT !.pc = "loop", !.role = "parent",
                                  !.stdout = io.stdout, !.stderr = io.stderr,
                                  !.id = NextRequested(0)])
         [] r.marker.state = "nonunicode" -> Set(p, Finish(r, "panic"))
    /\ UNCHANGED cfg

\* the client arm once `.build().launch()?`, which blocks until it is
\* connected to a broker, returns: up to the call of the client callback
ReexecConnect(p) ==
    LET r    == procs[p]
        core == ParseVal(r.marker.text)
        c1   == [Log(r, <<"build_client">>) EXCEPT !.role = "client", !.bind_to = core]
    IN
    /\ cfg.path = "reexec" /\ r.pc = "connect"
    /\ \/ Set(p, Finish(c1, "Err_os"))
       \/ IF r.run_client
          THEN Set(p, [Log(c1, <<"run_client">>) EXCEPT
                         !.endpoint = "connected", !.run_client = FALSE,
                         !.pc = "callback"])
          ELSE Set(p, Finish([c1 EXCEPT !.endpoint = "disconnected"], "panic"))
    /\ UNCHANGED cfg

\* (variant of ReexecSpawn in which the child does not see the marker the
\* parent set for it, only the one the parent was started with)
ReexecSpawn_MarkerNotInherited(p) ==
    LET r     == procs[p]
        stdio == ReexecStdio(r.debug_output, cfg.stdout_file, cfg.stderr_file)
        delay == r.id * cfg.launch_delay
        r1    == [Log(r, <<"sleep", "set_var">>) EXCEPT
                    !.marker = MarkerSet(ToString(r.id))]
        child == [NewProc(p, r.marker, cfg) EXCEPT
                    !.slept = delay,
                    !.stdout = IF stdio = "null" THEN "null" ELSE r.stdout,
                    !.stderr = IF stdio = "null" THEN "null" ELSE r.stderr]
    IN
    /\ cfg.path = "reexec" /\ r.pc = "loop" /\ r.id < NumCores
    /\ \/ Set(p, Finish(Log(r1, <<"spawn_failed">>), "Err_os"))
       \/ /\ Len(procs) < MaxProcs
          /\ SetAndSpawn(p, [Log(r1, <<"spawn", "push">>) EXCEPT
                               !.handles = Append(r.handles, Len(procs) + 1),
                               !.id = NextRequested(r.id + 1)],
                         child)
    /\ UNCHANGED cfg

\* one taken iteration of the spawn loop: sleep, set_var, startable_self()?,
\* spawn()?, handles.push
ReexecSpawn(p) ==
    LET r     == procs[p]
        stdio == ReexecStdio(r.debug_output, cfg.stdout_file, cfg.stderr_file)
        delay == r.id * cfg.launch_delay
        r1    == [Log(r, <<"sleep", "set_var">>) EXCEPT
                    !.marker = MarkerSet(ToString(r.id))]
        child == [NewProc(p, r1.marker, cfg) EXCEPT
                    !.slept = delay,
                    !.stdout = IF stdio = "null" THEN "null" ELSE r.stdout,
                    !.stderr = IF stdio = "null" THEN "null" ELSE r.stderr]
    IN
    /\ cfg.path = "reexec" /\ r.pc = "loop" /\ r.id < NumCores
    /\ \/ Set(p, Finish(Log(r1, <<"spawn_failed">>), "Err_os"))
       \/ /\ Len(procs) < MaxProcs
          /\ SetAndSpawn(p, [Log(r1, <<"spawn", "push">>) EXCEPT
                               !.handles = Append(r.handles, Len(procs) + 1),
                               !.id = NextRequested(r.id + 1)],
                         child)
    /\ UNCHANGED cfg

\* (variant of ReexecBrokerOrWait without the emptiness check)
ReexecBrokerOrWait_NoCheck(p) ==
    LET r == procs[p] IN
    /\ cfg.path = "reexec" /\ r.pc = "loop" /\ r.id = NumCores
    /\ IF cfg.spawn_broker THEN Set(p, BuildBroker(r))
       ELSE IF r.handles = <<>> THEN Set(p, Finish(r, "Ok"))
       ELSE Set(p, [r EXCEPT !.pc = "wait"])
    /\ UNCHANGED cfg

\* `if self.cores.ids.is_empty()` after the loop, then broker or wait
ReexecBrokerOrWait(p) ==
    LET r == procs[p] IN
    /\ cfg.path = "reexec" /\ r.pc = "loop" /\ r.id = NumCores
    /\ IF cfg.cores = {} THEN Set(p, Finish(r, "Err_illegal_argument"))
       ELSE IF cfg.spawn_broker THEN Set(p, BuildBroker(r))
       ELSE IF r.handles = <<>> THEN Set(p, Finish(r, "Ok"))
       ELSE Set(p, [r EXCEPT !.pc = "wait"])
    /\ UNCHANGED cfg

\* the client callback returns and launch_with_hooks returns its result, or
\* the callback panics and launch_with_hooks unwinds
ReexecClientReturn(p) ==
    LET r == procs[p] IN
    /\ cfg.path = "reexec" /\ r.pc = "callback" /\ ~r.exited
    /\ \E res \in {"Ok", "Err_callback", "panic"} :
         Set(p, Finish([r EXCEPT !.endpoint = "disconnected"], res))
    /\ UNCHANGED cfg

\* the broker run returns Ok: `handle.kill()?` for every handle, in order
ReexecBrokerExit(p) ==
    LET r == procs[p] IN
    /\ cfg.path = "reexec" /\ r.pc = "broker" /\ QuotaReached(p)
    /\ \/ Set(p, Finish([Log(r, <<"broker_returned", "kill">>) EXCEPT
                           !.killed = r.handles], "Ok"))
       \/ \E j \in 1..Len(r.handles) :
            Set(p, Finish([Log(r, <<"broker_returned", "kill">>) EXCEPT
                             !.killed = SubSeq(r.handles, 1, j),
                             !.kill_failed = {r.handles[j]}], "Err_os"))
    /\ UNCHANGED cfg

\* one iteration of the `handle.wait()?` loop: Child::wait retries after
\* EINTR, so it returns Ok only once the child has ended, however it ended
ReexecWait(p) ==
    LET r == procs[p]
        k == Len(r.waited) + 1
        h == r.handles[k]
    IN
    /\ cfg.path = "reexec" /\ r.pc = "wait"
    /\ \/ Set(p, Finish(Log(r, <<"wait_failed">>), "Err_os"))
       \/ /\ Ended(h)
          /\ \E status \in ExitStatuses :
               Reap(p, IF k = Len(r.handles) THEN Finish(WaitOne(r, h, status), "Ok")
                       ELSE WaitOne(r, h, status), h)
    /\ UNCHANGED cfg

\* ------------------------------------------- CentralizedLauncher (fork)
\* (variant of CentralizedValidate that also rejects a missing main callback)
CentralizedValidate_BothCallbacks(p) ==
    LET r == procs[p] IN
    /\ cfg.path = "centralized" /\ r.pc = "entry"
    /\ IF cfg.cores = {} THEN Set(p, Finish(r, "Err_illegal_argument"))
       ELSE IF ~r.secondary_run_client \/ ~r.main_run_client
            THEN Set(p, Finish(r, "Err_illegal_argument"))
       ELSE \/ Set(p, Finish(Log(r, <<"get_core_ids">>), "panic"))
            \/ /\ cfg.stdout_file
               /\ Set(p, Finish(Log(r, <<"get_core_ids", "File::create">>), "panic"))
            \/ /\ cfg.stderr_file
               /\ Set(p, Finish([Log(r, <<"get_core_ids", "File::create">>) EXCEPT
                                   !.opened_stdout_file = cfg.stdout_file], "panic"))
            \/ Set(p, [Log(r, <<"get_core_ids">>) EXCEPT
                         !.pc = "spawn_centralized", !.role = "parent",
                         !.opened_stdout_file = cfg.stdout_file,
                         !.opened_stderr_file = cfg.stderr_file,
                         !.debug_output = cfg.debug_env])
    /\ UNCHANGED cfg

\* launch_generic up to the fork of the centralized broker; the two
\* File::create(..).unwrap() run in the order stdout_file, stderr_file
CentralizedValidate(p) ==
    LET r == procs[p] IN
    /\ cfg.path = "centralized" /\ r.pc = "entry"
    /\ IF cfg.cores = {} THEN Set(p, Finish(r, "Err_illegal_argument"))
       ELSE IF ~r.secondary_run_client THEN Set(p, Finish(r, "Err_illegal_argument"))
       ELSE \/ Set(p, Finish(Log(r, <<"get_core_ids">>), "panic"))
            \/ /\ cfg.stdout_file
               /\ Set(p, Finish(Log(r, <<"get_core_ids", "File::create">>), "panic"))
            \/ /\ cfg.stderr_file
               /\ Set(p, Finish([Log(r, <<"get_core_ids", "File::create">>) EXCEPT
                                   !.opened_stdout_file = cfg.stdout_file], "panic"))
            \/ Set(p, [Log(r, <<"get_core_ids">>) EXCEPT
                         !.pc = "spawn_centralized", !.role = "parent",
                         !.opened_stdout_file = cfg.stdout_file,
                         !.opened_stderr_file = cfg.stderr_file,
                         !.debug_output = cfg.debug_env])
    /\ UNCHANGED cfg

\* (variant of CentralizedBrokerSpawn that does not record the pid of the
\* centralized broker)
CentralizedBrokerSpawn_NoPush(p) ==
    LET r == procs[p] IN
    /\ cfg.path = "centralized" /\ r.pc = "spawn_centralized"
    /\ Duplicate(p, r, [r EXCEPT !.pc = "pause"],
                 ChildImage(p, r, "centralized_child"))
    /\ UNCHANGED cfg

\* "Spawn centralized broker": the fork and its Parent arm, up to the sleep
CentralizedBrokerSpawn(p) ==
    LET r == procs[p] IN
    /\ cfg.path = "centralized" /\ r.pc = "spawn_centralized"
    /\ Duplicate(p, r,
                 [r EXCEPT !.handles = Append(r.handles, Len(procs) + 1),
                           !.pc = "pause"],
                 ChildImage(p, r, "centralized_child"))
    /\ UNCHANGED cfg

\* the 10 ms sleep after the centralized fork is over: `let mut index = 0`
\* and the head of the worker loop
CentralizedPause(p) ==
    LET r == procs[p] IN
    /\ cfg.path = "centralized" /\ r.pc = "pause"
    /\ Set(p, [r EXCEPT !.slept = CentralizedBrokerPause,
                        !.pc = "loop", !.index = 0, !.id = NextRequested(0)])
    /\ UNCHANGED cfg

\* (variant of CentralizedBrokerChild whose Child arm does not return but
\* goes on into the worker spawn loop)
CentralizedBrokerChild_IntoLoop(p) ==
    LET r  == procs[p]
        r1 == Log(r, <<"post_fork_true">>)
        r2 == Log(r1, <<"CentralizedLlmpHook::new">>)
        r3 == Log(r2, <<"build_centralized_broker">>)
    IN
    /\ cfg.path = "centralized" /\ r.pc = "centralized_child"
    /\ \/ Set(p, Finish(r1, "Err_os"))
       \/ Set(p, Finish(r2, "Err_os"))
       \/ Set(p, Finish(r3, "Err_os"))
       \/ Set(p, [r3 EXCEPT !.role = "centralized_broker", !.pc = "loop",
                            !.index = 0, !.id = NextRequested(0)])
    /\ UNCHANGED cfg

\* the ForkResult::Child arm of the centralized-broker fork, up to the loop
CentralizedBrokerChild(p) ==
    LET r  == procs[p]
        r1 == Log(r, <<"post_fork_true">>)
        r2 == Log(r1, <<"CentralizedLlmpHook::new">>)
        r3 == Log(r2, <<"build_centralized_broker">>)
    IN
    /\ cfg.path = "centralized" /\ r.pc = "centralized_child"
    /\ \/ Set(p, Finish(r1, "Err_os"))
       \/ Set(p, Finish(r2, "Err_os"))
       \/ Set(p, Finish(r3, "Err_os"))
       \/ Set(p, [r3 EXCEPT !.role = "centralized_broker", !.pc = "centralized_loop"])
    /\ UNCHANGED cfg

\* broker.loop_with_timeouts returns: "The last client quit. Exiting."
LastClientQuit ==
    /\ \E q \in Pids : procs[q].c_mgr = "disconnected"
    /\ \A q \in Pids : procs[q].c_mgr # "connected"

\* a SIGINT was delivered to process q
Signalled(q) ==
    \E s \in Pids : \/ q \in Range(procs[s].killed) /\ q \notin procs[s].kill_failed
                    \/ q \in procs[s].sent

CentralizedBrokerDone(p) ==
    LET r == procs[p] IN
    /\ cfg.path = "centralized" /\ r.pc = "centralized_loop"
    /\ LastClientQuit \/ Signalled(p)
    /\ Set(p, Finish(r, "Err_shutting_down"))
    /\ UNCHANGED cfg

\* one taken iteration of the client spawn loop, in the forking process
CentralizedSpawn(p) ==
    LET r  == procs[p]
        r1 == [r EXCEPT !.index = r.index + 1]
    IN
    /\ cfg.path = "centralized" /\ r.pc = "loop" /\ r.id < NumCores
    /\ Duplicate(p, r1,
                 [r1 EXCEPT !.handles = Append(r.handles, Len(procs) + 1),
                            !.id = NextRequested(r.id + 1)],
                 ChildImage(p, r1, "child"))
    /\ UNCHANGED cfg

\* `if index == 1`
IsMainClient(r) == r.index = 1

\* the ForkResult::Child arm of a worker fork up to its sleep: post_fork(true)?
CentralizedChild(p) ==
    LET r  == procs[p]
        r1 == Log(r, <<"post_fork_true">>)
    IN
    /\ cfg.path = "centralized" /\ r.pc = "child"
    /\ \/ Set(p, Finish(r1, "Err_os"))
       \/ Set(p, [r1 EXCEPT !.pc = "sleep"])
    /\ UNCHANGED cfg

\* the sleep of index * launch_delay is over: the dup2 calls, `if index == 1`
\* and the take().unwrap() of the inner manager builder, up to the call of
\* that builder, which blocks until it is connected to a broker
CentralizedChildSetup(p) ==
    LET r    == procs[p]
        io   == ForkRedirect(r.debug_output, r.opened_stdout_file, r.opened_stderr_file)
        main == IsMainClient(r)
        r2   == [Log(r, <<"sleep">>) EXCEPT !.slept = r.index * cfg.launch_delay]
        r3   == [Log(r2, <<"redirect">>) EXCEPT
                   !.stdout = io.stdout, !.stderr = io.stderr,
                   !.role = IF main THEN "main" ELSE "secondary",
                   !.bind_to = CoreAt(r.id)]
        has_builder == IF main THEN r.main_inner_mgr_builder
                       ELSE r.secondary_inner_mgr_builder
    IN
    /\ cfg.path = "centralized" /\ r.pc = "sleep"
    /\ \/ \E f \in RedirectFailures(r, io) :
            Set(p, Finish([Log(r2, <<"redirect">>) EXCEPT
                             !.stdout = f.stdout, !.stderr = f.stderr], "Err_os"))
       \/ IF ~has_builder THEN Set(p, Finish(r3, "panic"))
          ELSE Set(p, [r3 EXCEPT
                         !.main_inner_mgr_builder = IF main THEN FALSE ELSE @,
                         !.secondary_inner_mgr_builder = IF main THEN @ ELSE FALSE,
                         !.pc = "connect"])
    /\ UNCHANGED cfg

\* the inner manager builder returns, then build_on_port and the call of the
\* worker's callback
CentralizedChildConnect(p) ==
    LET r    == procs[p]
        main == r.role = "main"
        r4   == Log(r, <<"build_client">>)
        r5   == [Log(r4, <<"build_on_port">>) EXCEPT !.is_main = main]
        has_cb == IF main THEN r.main_run_client ELSE r.secondary_run_client
        r6   == [Log(r5, <<"run_client">>) EXCEPT
                   !.endpoint = "connected", !.c_mgr = "connected",
                   !.main_run_client = IF main THEN FALSE ELSE @,
                   !.secondary_run_client = IF main THEN @ ELSE FALSE,
                   !.pc = "callback"]
    IN
    /\ cfg.path = "centralized" /\ r.pc = "connect"
    /\ \/ Set(p, Finish(r4, "Err_os"))
       \/ Set(p, Finish([r5 EXCEPT !.endpoint = "disconnected"], "Err_os"))
       \/ IF has_cb THEN Set(p, r6)
          ELSE Set(p, Finish([r5 EXCEPT !.endpoint = "disconnected",
                                        !.c_mgr = "disconnected"], "panic"))
    /\ UNCHANGED cfg

\* the worker callback returns: `{ ... }?` ends launch_generic on Err and
\* falls through to the next loop iteration on Ok; a callback that panics
\* unwinds launch_generic
CentralizedClientReturn(p) ==
    LET r == procs[p]
        r1 == [r EXCEPT !.endpoint = "disconnected", !.c_mgr = "disconnected"]
    IN
    /\ cfg.path = "centralized" /\ r.pc = "callback" /\ ~r.exited
    /\ \/ \E res \in {"Err_callback", "panic"} : Set(p, Finish(r1, res))
       \/ Set(p, [Log(r1, <<"callback_ok">>) EXCEPT
                    !.pc = "loop", !.id = NextRequested(r.id + 1)])
    /\ UNCHANGED cfg

CentralizedBrokerOrWait(p) ==
    LET r == procs[p] IN
    /\ cfg.path = "centralized" /\ r.pc = "loop" /\ r.id = NumCores
    /\ IF cfg.spawn_broker THEN Set(p, BuildBroker(r))
       ELSE IF r.handles = <<>> THEN Set(p, Finish(r, "Ok"))
       ELSE Set(p, [r EXCEPT !.pc = "wait"])
    /\ UNCHANGED cfg

\* the first-tier broker run returns Ok: SIGINT to every handle, then Ok(())
CentralizedBrokerExit(p) ==
    LET r == procs[p] IN
    /\ cfg.path = "centralized" /\ r.pc = "broker" /\ QuotaReached(p)
    /\ \E failed \in SUBSET Range(r.handles) :
         Set(p, Finish(KillAll(r, failed), "Ok"))
    /\ UNCHANGED cfg

\* one iteration of the waitpid loop.  The value waitpid returns is not
\* looked at: the call reports the end of a child of the caller, or it fails
\* and leaves `status` at 0: at once for a pid that is not a child of the
\* caller (ECHILD), at any time while the child is still running (EINTR).
CentralizedWait(p) ==
    LET r == procs[p]
        k == Len(r.waited) + 1
        h == r.handles[k]
        after(status) == IF k = Len(r.handles) THEN Finish(WaitOne(r, h, status), "Ok")
                         ELSE WaitOne(r, h, status)
    IN
    /\ cfg.path = "centralized" /\ r.pc = "wait"
    /\ \/ /\ procs[h].parent = p /\ Ended(h)
          /\ \E status \in ExitStatuses : Reap(p, after(status), h)
       \/ Set(p, after(0))
    /\ UNCHANGED cfg

\* ------------------------------------------------------- repeated launch
\* (variant of Relaunch in which the marker a re-exec parent set for its
\* children has been removed from the environment before launch is called
\* again)
Relaunch_MarkerRemoved(p) ==
    LET r == procs[p] IN
    /\ r.pc = "done" /\ r.result # "panic" /\ ~r.exited
    /\ Len(r.earlier) + 1 < MaxLaunches
    /\ Set(p, [NewProc(r.parent, MarkerAbsent, cfg) EXCEPT
                  !.run_client = r.run_client,
                  !.main_run_client = r.main_run_client,
                  !.secondary_run_client = r.secondary_run_client,
                  !.opened_stdout_file = r.opened_stdout_file,
                  !.opened_stderr_file = r.opened_stderr_file,
                  !.stdout = r.stdout, !.stderr = r.stderr,
                  !.endpoint = r.endpoint, !.c_mgr = r.c_mgr, !.brokers = r.brokers,
                  !.sent = r.sent \cup (Range(r.killed) \ r.kill_failed),
                  !.earlier = Append(r.earlier, r.result)])
    /\ UNCHANGED cfg

\* launch (launch_with_hooks of either build, or launch_generic) has returned
\* to its caller and the program calls it again on the same launcher in the
\* same process, which has not exited (no wait call has reaped it): the fields of the launcher (callback
\* slots, opened files), the environment (set_var is never undone) and the
\* redirected streams are as the earlier call left them, the locals
\* (handles, the inner manager builders, debug_output) are fresh
Relaunch(p) ==
    LET r == procs[p] IN
    /\ r.pc = "done" /\ r.result # "panic" /\ ~r.exited
    /\ Len(r.earlier) + 1 < MaxLaunches
    /\ Set(p, [NewProc(r.parent, r.marker, cfg) EXCEPT
                  !.run_client = r.run_client,
                  !.main_run_client = r.main_run_client,
                  !.secondary_run_client = r.secondary_run_client,
                  !.opened_stdout_file = r.opened_stdout_file,
                  !.opened_stderr_file = r.opened_stderr_file,
                  !.stdout = r.stdout, !.stderr = r.stderr,
                  !.endpoint = r.endpoint, !.c_mgr = r.c_mgr, !.brokers = r.brokers,
                  !.sent = r.sent \cup (Range(r.killed) \ r.kill_failed),
                  !.earlier = Append(r.earlier, r.result)])
    /\ UNCHANGED cfg

\* ------------------------------------------------------------------- next
Next ==
    \/ \E p \in Pids : ForkValidate(p)
    \/ \E p \in Pids : ForkSpawn(p)
    \/ \E p \in Pids : ForkChild(p)
    \/ \E p \in Pids : ForkChildSetup(p)
    \/ \E p \in Pids : ForkChildConnect(p)
    \/ \E p \in Pids : ForkClientReturn(p)
    \/ \E p \in Pids : ForkBrokerOrWait(p)
    \/ \E p \in Pids : ForkBrokerExit(p)
    \/ \E p \in Pids : ForkWait(p)
    \/ \E p \in Pids : BrokerFail(p)
    \/ \E p \in Pids : ReexecEntry(p)
    \/ \E p \in Pids : ReexecConnect(p)
    \/ \E p \in Pids : ReexecSpawn(p)
    \/ \E p \in Pids : ReexecClientReturn(p)
    \/ \E p \in Pids : ReexecBrokerOrWait(p)
    \/ \E p \in Pids : ReexecBrokerExit(p)
    \/ \E p \in Pids : ReexecWait(p)
    \/ \E p \in Pids : CentralizedValidate(p)
    \/ \E p \in Pids : CentralizedBrokerSpawn(p)
    \/ \E p \in Pids : CentralizedPause(p)
    \/ \E p \in Pids : CentralizedBrokerChild(p)
    \/ \E p \in Pids : CentralizedBrokerDone(p)
    \/ \E p \in Pids : CentralizedSpawn(p)
    \/ \E p \in Pids : CentralizedChild(p)
    \/ \E p \in Pids : CentralizedChildSetup(p)
    \/ \E p \in Pids : CentralizedChildConnect(p)
    \/ \E p \in Pids : CentralizedClientReturn(p)
    \/ \E p \in Pids : CentralizedBrokerOrWait(p)
    \/ \E p \in Pids : CentralizedBrokerExit(p)
    \/ \E p \in Pids : CentralizedWait(p)
    \/ \E p \in Pids : CallbackExits(p)

Spec == Init /\ [][Next]_vars

\* the wait call process p is blocked in returns by itself: the process it
\* waits for has ended, or is not a child of p (ECHILD)
WaitReturns(p) ==
    LET r == procs[p]
        h == r.handles[Len(r.waited) + 1]
    IN r.pc = "wait" /\ (Ended(h) \/ procs[h].parent # p)

\* A step the launcher's own code takes without waiting for anything outside
\* it: straight-line code of launch up to its next blocking call, a sleep
\* that runs out, a broker run whose quota is reached, a wait call on a
\* process that has ended.  Left out is all that nothing obliges to happen:
\* a client build that connects, a callback that returns, panics or ends
\* the process, a broker run that fails, a wait call that is interrupted.
Progress ==
    \E p \in Pids :
       \/ ForkValidate(p) \/ ForkSpawn(p) \/ ForkChild(p) \/ ForkChildSetup(p)
       \/ ForkBrokerOrWait(p) \/ ForkBrokerExit(p)
       \/ ReexecEntry(p) \/ ReexecSpawn(p) \/ ReexecBrokerOrWait(p)
       \/ ReexecBrokerExit(p)
       \/ CentralizedValidate(p) \/ CentralizedBrokerSpawn(p) \/ CentralizedPause(p)
       \/ CentralizedBrokerChild(p) \/ CentralizedBrokerDone(p)
       \/ CentralizedSpawn(p) \/ CentralizedChild(p) \/ CentralizedChildSetup(p)
       \/ CentralizedBrokerOrWait(p) \/ CentralizedBrokerExit(p)
       \/ /\ WaitReturns(p)
          /\ ForkWait(p) \/ ReexecWait(p) \/ CentralizedWait(p)

\* Every process that is running code of launch is scheduled; a process
\* blocked in a client build, a callback, a broker run below its quota or a
\* wait on a running child may stay there forever.
LiveSpec == Init /\ [][Next]_vars /\ WF_vars(Progress)

\* Programs that may call launch again after it returned.
RelaunchNext ==
    \/ Next
    \/ \E p \in Pids : Relaunch(p)

\* Launches with every caller callback set and no redirection, on the cores
\* {0} or, on the re-exec path, {0, 1}, of a machine without affinity mask.
RelaunchInit ==
    InitOver({c \in Configs :
                 /\ ~c.stdout_file /\ ~c.stderr_file /\ ~c.debug_env
                 /\ c.repeats = 0 /\ c.core_ids = [i \in 1..NumCores |-> i - 1]
                 /\ c.cores \in (IF c.path = "reexec" THEN {{0}, {0, 1}} ELSE {{0}})
                 /\ c.path = "centralized" => c.main_run_client /\ c.secondary_run_client
                 /\ c.path # "centralized" => c.run_client})

RelaunchSpec == RelaunchInit /\ [][RelaunchNext]_vars

\* Launches with every caller callback set on the cores {0} or {0, 1} of a
\* machine without affinity mask, over every combination of stdout_file,
\* stderr_file and LIBAFL_DEBUG_OUTPUT.
RedirInit ==
    InitOver({c \in Configs :
                 /\ c.cores \in {{0}, {0, 1}} /\ c.repeats = 0
                 /\ c.core_ids = [i \in 1..NumCores |-> i - 1]
                 /\ c.path = "centralized" => c.main_run_client /\ c.secondary_run_client
                 /\ c.path # "centralized" => c.run_client})

RedirSpec == RedirInit /\ [][Next]_vars

\* ================================================================ claims
\* the process the caller started
Root == CHOOSE q \in Pids : procs[q].parent = 0

Events(q) == Range(procs[q].trace)

Children(p) == {q \in Pids : procs[q].parent = p}

CountEv(t, e) == Cardinality({i \in 1..Len(t) : t[i] = e})

\* processes that built a broker-role endpoint
BrokerBuilders == {q \in Pids : procs[q].brokers > 0}

\* processes that attempted to build a client-role endpoint
ClientAttempts == {q \in Pids : "build_client" \in Events(q)}

\* every spawned process has run its set-up
Settled == \A q \in Pids : procs[q].pc \notin {"entry", "child", "centralized_child",
                                                 "sleep", "connect"}

NoFailure == \A q \in Pids : procs[q].result \notin {"Err_os", "panic"}

\* the caller set no client callback
NoCallback == IF cfg.path = "centralized" THEN ~cfg.secondary_run_client
              ELSE ~cfg.run_client

\* ---- C1: with spawn_broker, a callback and a non-empty core set of size N,
\* once the launching process runs its broker and every spawned process has
\* set up without failure, there is exactly one broker endpoint, exactly N
\* client endpoint attempts (one per requested core) and the broker quota
\* is N.
C1_Original ==
    (/\ cfg.spawn_broker /\ cfg.cores # {} /\ ~NoCallback
     /\ procs[Root].pc = "broker" /\ Settled /\ NoFailure)
    => /\ Cardinality(BrokerBuilders) = 1
       /\ procs[Root].exit_cleanly_after = Cardinality(cfg.cores)
       /\ Cardinality(ClientAttempts) = Cardinality(cfg.cores)
       /\ {procs[q].bind_to : q \in ClientAttempts} = cfg.cores

\* ---- C2 (as stated): a launch with an empty core set fails and creates no
\* process and no endpoint, on every path.
C2_Original ==
    cfg.cores = {}
    => /\ Len(procs) = 1
       /\ ClientAttempts = {} /\ BrokerBuilders = {}
       /\ procs[Root].result # "Ok"

\* ---- C2 (amended): a launch with an empty core set creates no process and
\* no broker endpoint on any path.  On the fork and centralized paths it
\* fails with the illegal-argument error before doing anything else.  On the
\* re-exec path a process in the parent role (marker absent) builds no
\* endpoint and fails: with illegal-argument, or with the panic / OS error of
\* the core enumeration and redirection set-up that run before the check.
C2_EmptyCores ==
    cfg.cores = {}
    => /\ Len(procs) = 1
       /\ BrokerBuilders = {}
       /\ cfg.path \in {"fork", "centralized"}
          => /\ ClientAttempts = {}
             /\ procs[Root].pc \in {"entry", "done"}
             /\ procs[Root].trace = <<>>
             /\ Finished(Root) => procs[Root].result = "Err_illegal_argument"
       /\ (cfg.path = "reexec" /\ procs[Root].marker.state = "absent")
          => /\ ClientAttempts = {}
             /\ Finished(Root) => procs[Root].result
                                    \in {"Err_illegal_argument", "panic", "Err_os"}

C2_Witness ==
    /\ cfg.cores = {} /\ cfg.path = "reexec"
    /\ procs[Root].role = "parent" /\ Finished(Root)
    /\ procs[Root].result = "Err_illegal_argument"

\* ---- C3: with no client callback set, a process that does not itself
\* resolve to the client role creates no process, builds no endpoint and
\* never returns Ok, on every path.
C3_Original ==
    (NoCallback /\ procs[Root].role # "client")
    => /\ Len(procs) = 1
       /\ ClientAttempts = {} /\ BrokerBuilders = {}
       /\ procs[Root].result # "Ok"

\* ---- C4: a process whose broker run has returned has sent the termination
\* to every handle it recorded, each exactly once.
C4_Original ==
    ~NoCallback
    => \A p \in Pids :
          "broker_returned" \in Events(p) => procs[p].killed = procs[p].handles

\* ---- C5: in Launcher (fork and re-exec) with spawn_broker=false no process
\* builds a broker endpoint or sends a signal; the launching process waits on
\* its handles in order, each wait returning only once that child has
\* exited; a non-zero status is logged and nothing else: the wait loop runs
\* to the last handle and launch returns Ok (only a failing wait call ends
\* it early).
C5_Original ==
    (~cfg.spawn_broker /\ cfg.path \in {"fork", "reexec"})
    => /\ \A q \in Pids : /\ procs[q].brokers = 0
                          /\ procs[q].killed = <<>>
                          /\ "build_broker" \notin Events(q)
       /\ LET r == procs[Root] IN
          /\ r.waited = SubSeq(r.handles, 1, Len(r.waited))
          /\ \A h \in Range(r.waited) : Ended(h)
          /\ Len(r.statuses) = Len(r.waited)
          /\ r.logged = SelectSeq(r.waited,
                                  LAMBDA h : \E k \in 1..Len(r.waited) :
                                                r.waited[k] = h /\ r.statuses[k] # 0)
          /\ (Finished(Root) /\ r.role = "parent" /\ r.result = "Ok")
             => r.waited = r.handles
          /\ (Finished(Root) /\ r.waited # <<>> /\ r.result # "Ok")
             => "wait_failed" \in Events(Root)

\* ---- C6: in Launcher (fork and re-exec) a process in the client role only
\* runs its callback and ends as the callback ends (with the Ok or Err it
\* returns, or unwinding with its panic): it is never in the spawn loop or
\* the broker-or-wait branch, and it creates no process.
C6_ClientNeverReturns ==
    cfg.path \in {"fork", "reexec"}
    => \A q \in Pids :
          /\ procs[q].parent \in {0, Root}
          /\ procs[q].role = "client"
             => /\ procs[q].pc \in {"callback", "done"}
                /\ Children(q) = {}
                /\ procs[q].brokers = 0
                /\ procs[q].killed = <<>> /\ procs[q].waited = <<>>
                /\ Events(q) \cap {"pre_fork", "fork", "spawn", "set_var",
                                   "push", "build_broker"} = {}
                /\ (Finished(q) /\ "run_client" \in Events(q))
                   => procs[q].result \in {"Ok", "Err_callback", "panic"}

C6_Witness ==
    /\ cfg.path = "fork"
    /\ \E q \in Pids : /\ procs[q].role = "client" /\ Finished(q)
                       /\ procs[q].result = "Ok"
                       /\ NextRequested(procs[q].id + 1) < NumCores

\* the workers among the processes (in the two-tier launch pid 2 is the
\* centralized broker)
IsWorker(q) == procs[q].parent # 0 /\ ~(cfg.path = "centralized" /\ q = 2)

\* position of worker q among the workers its parent spawned
SpawnOrder(q) ==
    Cardinality({w \in Children(procs[q].parent) : IsWorker(w) /\ w <= q})

\* ---- C7: the k-th spawned worker is delayed by k * launch_delay, and
\* workers are spawned in increasing core-index order, on every path.
C7_Original ==
    ~NoCallback
    => \A q \in Pids :
          /\ (IsWorker(q) /\ procs[q].slept # -1)
             => procs[q].slept = SpawnOrder(q) * cfg.launch_delay
          /\ \A w \in Pids :
               (/\ IsWorker(q) /\ IsWorker(w) /\ procs[q].parent = procs[w].parent
                /\ q < w /\ procs[q].bind_to # -1 /\ procs[w].bind_to # -1)
               => procs[q].bind_to < procs[w].bind_to

\* ---- C8: in the two-tier launch at most one worker is classified main,
\* and a classified worker is main exactly when its stagger index is 1; the main
\* worker is the first worker the launching process forked and is bound to
\* the first requested core; it uses the main builder and the main callback
\* with is_main set, every other worker the secondary ones with is_main unset.
C8_Original ==
    cfg.path = "centralized"
    => /\ Cardinality({q \in Pids : procs[q].role = "main"}) <= 1
       /\ \A q \in Pids :
            /\ procs[q].is_main => procs[q].role = "main"
            /\ procs[q].role \in {"main", "secondary"}
               => /\ (procs[q].role = "main") <=> (procs[q].slept = 1 * cfg.launch_delay)
                  /\ (procs[q].role = "main") <=> (procs[q].bind_to = NextRequested(0))
                  /\ procs[q].role = "main" => procs[q].parent = Root /\ q = 3
            /\ (procs[q].role = "main" /\ procs[q].pc = "callback")
               => /\ procs[q].is_main
                  /\ ~procs[q].main_inner_mgr_builder /\ ~procs[q].main_run_client
                  /\ procs[q].secondary_inner_mgr_builder
                  /\ procs[q].secondary_run_client
            /\ (procs[q].role = "secondary" /\ procs[q].pc = "callback")
               => /\ ~procs[q].is_main
                  /\ ~procs[q].secondary_inner_mgr_builder
                  /\ ~procs[q].secondary_run_client

\* ---- C9: in the two-tier launch with spawn_broker the only processes are
\* the launching process (first-tier broker), one centralized broker and at
\* most N workers, all created by the launching process, and at most one
\* first-tier broker endpoint is built, whatever the callbacks return (shown
\* here for runs in which no system call fails).
C9_Original ==
    (cfg.path = "centralized" /\ cfg.spawn_broker /\ NoFailure)
    => /\ Cardinality(BrokerBuilders) <= 1
       /\ \A q \in Pids : procs[q].parent \in {0, Root}
       /\ Cardinality({q \in Pids : procs[q].role = "centralized_broker"}) <= 1
       /\ Cardinality({q \in Pids : IsWorker(q)}) <= Cardinality(cfg.cores)

\* ---- C10: on the fork and centralized paths every fork is immediately
\* preceded by pre_fork in the forking process and followed there by
\* post_fork(false) and only then by the push of the handle; every process
\* exists through exactly one such fork, and it calls post_fork(true) before
\* it sleeps, redirects or builds an endpoint.
C10_ForkProtocol ==
    cfg.path # "reexec"
    => \A q \in Pids :
         LET t == procs[q].trace IN
         /\ \A i \in 1..Len(t) :
              /\ t[i] = "fork" => /\ i > 1 /\ t[i - 1] = "pre_fork"
                                  /\ i < Len(t) /\ t[i + 1] = "post_fork_false"
              /\ t[i] = "post_fork_false" => i > 1 /\ t[i - 1] = "fork"
              /\ t[i] = "push" => i > 1 /\ t[i - 1] = "post_fork_false"
         /\ Cardinality(Children(q)) = CountEv(t, "fork")
         /\ procs[q].parent # 0
            => /\ t = <<>> => procs[q].pc \in {"child", "centralized_child"}
               /\ t # <<>> => t[1] = "post_fork_true"

C10_Witness ==
    /\ cfg.path = "centralized"
    /\ CountEv(procs[Root].trace, "push") = 3
    /\ \E q \in Children(Root) : "build_centralized_broker" \in Events(q)
    /\ \E q \in Children(Root) : "build_client" \in Events(q)

\* a spawned worker whose standard streams are set up: a forked worker past
\* its dup2 calls, or a re-exec child (its streams are set by spawn)
StreamsSet(q) ==
    /\ IsWorker(q)
    /\ IF cfg.path = "reexec" THEN TRUE
       ELSE procs[q].pc = "connect" \/ "build_client" \in Events(q)

\* ---- C11: when LIBAFL_DEBUG_OUTPUT is present no process has its stdout or
\* stderr redirected (to a file or to the null device), whatever stdout_file
\* and stderr_file are, on the fork, re-exec and centralized paths.
C11_DebugOutput ==
    cfg.debug_env
    => \A q \in Pids : procs[q].stdout = "inherit" /\ procs[q].stderr = "inherit"

C11_Witness ==
    /\ cfg.debug_env /\ cfg.stdout_file /\ cfg.stderr_file
    /\ \E q \in Pids : StreamsSet(q) /\ procs[q].pc = "callback"
                       /\ procs[q].stdout = "inherit"

\* ---- C12: without the debug override and with stdout_file configured,
\* every worker whose streams are set up has stdout on the stdout file and
\* stderr on the stderr file when stderr_file is configured, on the stdout
\* file when it is not.
C12_StreamTargets ==
    (~cfg.debug_env /\ cfg.stdout_file)
    => \A q \in Pids :
          StreamsSet(q)
          => /\ procs[q].stdout = "stdout_file"
             /\ procs[q].stderr = IF cfg.stderr_file THEN "stderr_file"
                                  ELSE "stdout_file"

C12_Witness ==
    /\ ~cfg.debug_env /\ cfg.stdout_file /\ ~cfg.stderr_file
    /\ cfg.path = "reexec"
    /\ \E q \in Pids : StreamsSet(q) /\ procs[q].pc = "callback"
                       /\ procs[q].stderr = "stdout_file"

\* the core index the spawn loop of q's parent was at when it spawned q: the
\* k-th smallest requested machine core index for the k-th spawned worker
AssignedCore(q) ==
    LET S == {i \in 0..(NumCores - 1) : Requested(i)}
        k == SpawnOrder(q)
    IN CHOOSE i \in S : Cardinality({j \in S : j <= i}) = k

\* ---- C13: on the re-exec path a process that leaves launch entry takes the
\* client branch exactly when AFL_LAUNCHER_CLIENT is present (it becomes a
\* client bound to the parsed core, or fails before acting in any role) and
\* the parent role exactly when it is absent (or fails during set-up); every
\* spawned child carries as marker the decimal text of the core index its
\* parent was at, so it becomes the client bound to that core, and it spawns
\* nothing: every spawned process is a child of the launching process.
C13_RoleByMarker ==
    /\ [](cfg.path = "reexec"
           => \A q \in Pids :
                procs[q].parent # 0
                => /\ procs[q].parent = Root
                   /\ procs[q].marker = MarkerSet(ToString(AssignedCore(q)))
                   /\ ParseOk(procs[q].marker.text)
                   /\ ParseVal(procs[q].marker.text) = AssignedCore(q)
                   /\ procs[q].pc \notin {"entry", "connect"}
                      => /\ procs[q].role = "client"
                         /\ procs[q].bind_to = AssignedCore(q)
                   /\ Children(q) = {}
                   /\ Events(q) \cap {"set_var", "spawn", "push"} = {})
    /\ [][cfg.path = "reexec"
           => \A q \in Pids :
                LET m == procs[q].marker
                    n == procs'[q]
                    failed == n.pc = "done" /\ n.role = "none"
                IN
                /\ (procs[q].pc = "entry" /\ n.pc # "entry")
                   => /\ n.pc = "connect" => m.state = "set"
                      /\ n.role = "parent" => m.state = "absent"
                      /\ m.state = "absent"
                         => \/ n.role = "parent"
                            \/ failed /\ n.result \in {"panic", "Err_os"}
                      /\ m.state # "absent"
                         => \/ n.pc = "connect" /\ n.role = "none"
                            \/ failed /\ n.result \in {"panic", "Err_parse"}
                /\ (procs[q].pc = "connect" /\ n.pc # "connect")
                   => n.role = "client" /\ n.bind_to = ParseVal(m.text)]_vars

C13_Witness ==
    /\ cfg.path = "reexec" /\ procs[Root].role = "parent"
    /\ Len(procs[Root].handles) = 2
    /\ \A k \in 1..2 :
         LET q == procs[Root].handles[k] IN
         /\ procs[q].role = "client" /\ procs[q].pc = "callback"
         /\ procs[q].bind_to = k - 1

\* the marker of process q is present but is not the text of a core index:
\* it is empty, a lone sign, holds a character that is not a digit, names a
\* number no usize holds, or is not unicode
Malformed(q) ==
    LET m == procs[q].marker IN
    \/ /\ m.state = "set"
       /\ \/ m.text \in {<<>>, <<PlusSign>>}
          \/ \E i \in 1..Len(m.text) : m.text[i] = NonDigit
          \/ \E i \in 2..Len(m.text) : m.text[i] = PlusSign
          \/ Len(m.text) >= Len(UsizeMaxDigits) /\ Overflows(Digits(m.text))
    \/ m.state = "nonunicode"

\* ---- C14: on the re-exec path a process whose marker is present but does
\* not parse as a core index does nothing but fail: it builds no endpoint,
\* spawns no process, leaves the callback slot untouched and is bound to no
\* core (no default index), and launch ends with the parse error for a
\* unicode value and with the "Env variables are broken" panic for a
\* non-unicode one.
C14_MalformedMarker ==
    cfg.path = "reexec"
    => \A q \in Pids :
          Malformed(q)
          => /\ procs[q].pc \in {"entry", "done"}
             /\ procs[q].trace = <<>>
             /\ procs[q].role = "none" /\ procs[q].bind_to = -1
             /\ procs[q].endpoint = "none" /\ procs[q].brokers = 0
             /\ procs[q].run_client = cfg.run_client
             /\ Children(q) = {} /\ procs[q].handles = <<>>
             /\ Finished(q)
                => procs[q].result = IF procs[q].marker.state = "set"
                                     THEN "Err_parse" ELSE "panic"

C14_Witness ==
    /\ cfg.path = "reexec" /\ cfg.run_client /\ cfg.cores # {}
    /\ procs[Root].marker = MarkerSet(<<NonDigit>>)
    /\ Finished(Root) /\ procs[Root].result = "Err_parse"

\* ---- C15: in every process the termination of recorded children comes
\* only after that process's broker run has returned, and every fork or
\* spawn it performs comes before it builds the broker: nothing is signalled
\* while the broker runs or when the broker fails.  On every path (fork,
\* re-exec, centralized) the launching process is the only one that runs a
\* broker, and every process of the launch already exists, and is recorded,
\* when it starts that broker: no client is spawned later.
C15_Original ==
    \A q \in Pids :
       LET t == procs[q].trace IN
       /\ \A i \in 1..Len(t) :
            /\ t[i] = "kill"
               => /\ i > 1 /\ t[i - 1] = "broker_returned"
                  /\ \E j \in 1..(i - 1) : t[j] = "build_broker"
            /\ t[i] \in {"fork", "spawn", "pre_fork", "push"}
               => \A j \in 1..i : t[j] \notin {"build_broker", "broker_returned", "kill"}
       /\ procs[q].killed # <<>> => "broker_returned" \in Events(q)
       /\ procs[q].pc = "broker" => procs[q].killed = <<>>
       /\ "broker_failed" \in Events(q) => procs[q].killed = <<>>
       /\ "build_broker" \in Events(q)
          => /\ q = Root
             /\ Pids \ {Root} = Range(procs[Root].handles)

\* ---- C16: in the two-tier launch a duplicated worker (main or secondary)
\* is never back in the spawn loop or in the broker-or-wait branch: it forks
\* no process, builds no first-tier broker endpoint, signals and waits on
\* no handle.
C16_Original ==
    cfg.path = "centralized"
    => \A q \in Pids :
          procs[q].role \in {"main", "secondary"}
          => /\ procs[q].pc \notin {"loop", "broker", "wait"}
             /\ Children(q) = {}
             /\ procs[q].brokers = 0
             /\ procs[q].killed = <<>> /\ procs[q].waited = <<>>

\* ---- C17: when signalling one recorded child fails during the shutdown
\* that follows the broker run, every recorded handle has still been
\* signalled, on every path.
C17_Original ==
    ~NoCallback
    => \A p \in Pids :
          procs[p].kill_failed # {}
          => Range(procs[p].killed) = Range(procs[p].handles)

\* every spawned client has disconnected from the broker
AllClientsGone ==
    \A q \in Pids : IsWorker(q) => procs[q].endpoint = "disconnected"

\* ---- C18: in Launcher (fork and re-exec, parent role) with spawn_broker, a
\* callback and a non-empty core set, if from some point on every spawned
\* client has disconnected, then launch eventually returns in the launching
\* process.
C18_Original ==
    (/\ cfg.path \in {"fork", "reexec"} /\ cfg.spawn_broker /\ cfg.cores # {}
     /\ ~NoCallback /\ procs[Root].marker.state = "absent")
    => (<>[]AllClientsGone => <>Finished(Root))

\* ---- C19: a launch that ends at the core enumeration (get_core_ids) or at
\* the creation of a redirection file (File::create) ends with a returned
\* Error value, never with a panic.
C19_Original ==
    \A q \in Pids :
       LET t == procs[q].trace IN
       (Finished(q) /\ t # <<>> /\ t[Len(t)] \in {"get_core_ids", "File::create"})
       => procs[q].result # "panic"

\* ---- C20: no process in a client role (Launcher client, main or secondary
\* worker) ends by unwrapping an empty callback or inner-manager-builder
\* slot; in the client roles that is the only way to end with a panic
\* without having called a callback.
C20_Original ==
    \A q \in Pids :
       (procs[q].role \in {"client", "main", "secondary"} /\ procs[q].result = "panic")
       => "run_client" \in Events(q)

\* ---- C21: when launch returns Ok in the launching process (parent role of
\* Launcher, fork and re-exec), every recorded handle has been waited on and
\* has exited, in the broker branch as in the wait branch.
C21_Original ==
    (/\ cfg.path \in {"fork", "reexec"} /\ ~NoCallback
     /\ procs[Root].role = "parent"
     /\ Finished(Root) /\ procs[Root].result = "Ok")
    => /\ Range(procs[Root].waited) = Range(procs[Root].handles)
       /\ \A h \in Range(procs[Root].handles) : Ended(h)

\* ---- C22: in the two-tier launch only process 2, the first process the
\* launching process forks, is the centralized broker.  It is forked once
\* validation has succeeded, whatever spawn_broker is, right after the core
\* enumeration and before any worker; the launching process has paused for
\* the fixed interval before it is in the worker loop.  The centralized
\* broker forks nothing, records no handle, builds no client or first-tier
\* broker endpoint, and ends with the shutting-down error once its loop is
\* over (or with the error of its set-up).
C22_CentralizedBroker ==
    cfg.path = "centralized"
    => /\ \A q \in Pids :
            q # 2 => /\ procs[q].pc \notin {"centralized_child", "centralized_loop"}
                     /\ procs[q].role # "centralized_broker"
                     /\ Events(q) \cap {"CentralizedLlmpHook::new",
                                        "build_centralized_broker"} = {}
       /\ CountEv(procs[Root].trace, "fork") >= 1
          => /\ SubSeq(procs[Root].trace, 1, 3) = <<"get_core_ids", "pre_fork", "fork">>
             /\ cfg.cores # {} /\ cfg.secondary_run_client
             /\ Len(procs) >= 2 /\ procs[2].parent = Root
       /\ procs[Root].pc \in {"loop", "broker", "wait"}
          => /\ procs[Root].slept = CentralizedBrokerPause
             /\ procs[Root].handles # <<>> /\ procs[Root].handles[1] = 2
       /\ \A q \in Pids :
            IsWorker(q) => /\ procs[procs[q].parent].handles # <<>>
                           /\ procs[procs[q].parent].handles[1] = 2
                           /\ q > 2
       /\ Len(procs) >= 2
          => /\ procs[2].role \in {"none", "centralized_broker"}
             /\ Children(2) = {} /\ procs[2].handles = <<>>
             /\ procs[2].brokers = 0 /\ procs[2].endpoint = "none"
             /\ Events(2) \cap {"pre_fork", "fork", "build_client", "build_broker",
                                 "kill"} = {}
             /\ Finished(2)
                => procs[2].result = IF procs[2].role = "centralized_broker"
                                     THEN "Err_shutting_down" ELSE "Err_os"

C22_Witness ==
    /\ cfg.path = "centralized" /\ ~cfg.spawn_broker
    /\ Len(procs[Root].handles) = 3
    /\ Finished(2) /\ procs[2].result = "Err_shutting_down"

\* the requested core ids that are machine core indexes
MatchingCores == {i \in 0..(NumCores - 1) : Requested(i)}

\* ---- C23: in the two-tier launch the pid of the centralized broker is the
\* first recorded handle, followed by one handle per worker the launching
\* process forked (one per requested machine core, N+1 handles when all N
\* requested cores exist).  A process whose first-tier broker run returned
\* has signalled every recorded handle, the centralized broker included;
\* with spawn_broker=false the launching process waits on every recorded
\* handle, the centralized broker included, before it returns Ok.
C23_CentralizedHandle ==
    cfg.path = "centralized"
    => /\ \A p \in Pids :
            LET r == procs[p] IN
            /\ r.handles # <<>> => r.handles[1] = 2
            /\ "broker_returned" \in Events(p)
               => /\ r.killed = r.handles
                  /\ 2 \in Range(r.killed)
       /\ LET r == procs[Root] IN
          /\ \A k \in 2..Len(r.handles) :
               IsWorker(r.handles[k]) /\ procs[r.handles[k]].parent = Root
          /\ r.pc \in {"broker", "wait"}
             => /\ Len(r.handles) = 1 + Cardinality(MatchingCores)
                /\ cfg.cores \subseteq 0..(NumCores - 1)
                   => Len(r.handles) = Cardinality(cfg.cores) + 1
          /\ (~cfg.spawn_broker /\ Finished(Root) /\ r.result = "Ok")
             => /\ r.waited = r.handles
                /\ 2 \in Range(r.waited)
                /\ Len(r.waited) = 1 + Cardinality(MatchingCores)

C23_Witness ==
    /\ cfg.path = "centralized" /\ cfg.spawn_broker
    /\ Finished(Root) /\ procs[Root].result = "Ok"
    /\ Len(procs[Root].killed) = 3 /\ procs[Root].killed[1] = 2
    /\ Signalled(2)

\* the last event of process q (none before its first)
LastEvent(q) ==
    IF procs[q].trace = <<>> THEN "none" ELSE procs[q].trace[Len(procs[q].trace)]

\* ---- C24: a process signals recorded children only after its broker run
\* returned without error.  A process that has recorded children and ends
\* launch with an error before or instead of the shutdown loop (a failing
\* pre_fork, fork, post_fork or spawn at a later core, a failing broker
\* build or run, a worker's own error after a fall-through) has signalled,
\* killed and waited on none of them; when it is the launching process of
\* Launcher nobody else signals them either, so they keep running.
C24_ErrorReturnsLeaveChildren ==
    \A p \in Pids :
       LET r == procs[p] IN
       /\ r.killed # <<>>
          => "broker_returned" \in Events(p) /\ "broker_failed" \notin Events(p)
       /\ (/\ Finished(p) /\ r.result # "Ok" /\ r.handles # <<>>
           /\ LastEvent(p) \notin {"kill", "wait_failed"})
          => /\ r.killed = <<>> /\ r.kill_failed = {} /\ r.waited = <<>>
             /\ Events(p) \cap {"kill", "broker_returned"} = {}
             /\ (cfg.path \in {"fork", "reexec"} /\ p = Root)
                => \A h \in Range(r.handles) : ~Signalled(h)

C24_Witness ==
    /\ cfg.path = "fork"
    /\ Finished(Root) /\ procs[Root].result = "Err_os"
    /\ LastEvent(Root) = "broker_failed"
    /\ Len(procs[Root].handles) = 2
    /\ \E h \in Range(procs[Root].handles) : procs[h].pc = "callback"

\* the workers the launching process has recorded
RootWorkers == {h \in Range(procs[Root].handles) : IsWorker(h)}

\* ---- C25: once the launching process is through its spawn loop it has
\* spawned exactly one worker for every machine core index in [0, num_cores)
\* that occurs in the requested list, each for such an index (bound to the
\* index on the re-exec path, to the core get_core_ids() lists at it on the
\* fork and centralized paths); a
\* requested id outside that range adds no worker and no error (launch goes
\* on to the broker-or-wait branch), and every first-tier broker is built
\* with the quota cores.ids.len().
C25_WorkersPerMachineCore ==
    /\ (procs[Root].role = "parent" /\ procs[Root].id = NumCores)
       => /\ Cardinality(RootWorkers)
               = Cardinality(cfg.cores \cap (0..(NumCores - 1)))
          /\ Len(procs[Root].handles)
               = Cardinality(RootWorkers) + (IF cfg.path = "centralized" THEN 1 ELSE 0)
    /\ \A q \in Pids :
          /\ (IsWorker(q) /\ procs[q].bind_to # -1)
             => \E i \in cfg.cores \cap (0..(NumCores - 1)) :
                   procs[q].bind_to = IF cfg.path = "reexec" THEN i ELSE CoreAt(i)
          /\ procs[q].brokers > 0
             => procs[q].exit_cleanly_after = CoresLen
    /\ (procs[Root].role = "parent" /\ Finished(Root) /\ cfg.cores # {}
        /\ LastEvent(Root) = "get_core_ids")
       => procs[Root].result = "Ok"

C25_Witness ==
    /\ cfg.path = "fork" /\ cfg.cores = {0, NumCores} /\ cfg.repeats = 1
    /\ procs[Root].pc = "broker"
    /\ Len(procs[Root].handles) = 1
    /\ procs[Root].exit_cleanly_after = 3

\* the children process p spawned in launch calls that have returned (the
\* handles of the running call are those of its own spawns)
EarlierChildren(p) == Children(p) \ Range(procs[p].handles)

\* the child process p spawned last, and the core index its marker names
LastChild(p) == CHOOSE q \in Children(p) : \A w \in Children(p) : w <= q

LastChildCore(p) == ParseVal(procs[LastChild(p)].marker.text)

\* ---- C26 (as stated): on the re-exec path a process that calls launch
\* again after a launch in which it spawned at least one child still has the
\* marker, takes the client role and not the parent role, and is bound to
\* the core index of the child it spawned last.
C26_Original ==
    cfg.path = "reexec"
    => \A p \in Pids :
          EarlierChildren(p) # {}
          => /\ procs[p].marker.state = "set"
             /\ procs[p].role # "parent"
             /\ procs[p].pc \notin {"entry", "connect"}
                => /\ procs[p].role = "client"
                   /\ procs[p].bind_to = LastChildCore(p)

\* ---- C26 (amended): on the re-exec path the marker a parent set is still
\* present when its launch returns and when launch is called again in that
\* process; the later call takes the client role, spawns nothing, and is
\* bound to the core index the marker was last set to.  That is the core of
\* the last spawned child when the earlier launch returned Ok, and a later
\* requested machine core, whose spawn failed after set_var, otherwise.
C26_MarkerPersists ==
    cfg.path = "reexec"
    => \A p \in Pids :
          /\ (procs[p].role = "parent" /\ Children(p) # {})
             => /\ procs[p].marker.state = "set"
                /\ ParseVal(procs[p].marker.text) >= LastChildCore(p)
          /\ EarlierChildren(p) # {}
             => /\ procs[p].earlier # <<>>
                /\ procs[p].marker.state = "set"
                /\ procs[p].role \in {"none", "client"}
                /\ procs[p].handles = <<>>
                /\ Events(p) \cap {"set_var", "spawn", "get_core_ids"} = {}
                /\ procs[p].pc \notin {"entry", "connect"}
                   => /\ procs[p].role = "client"
                      /\ procs[p].bind_to = ParseVal(procs[p].marker.text)
                      /\ procs[p].bind_to >= LastChildCore(p)
                      /\ procs[p].bind_to \in cfg.cores \cap (0..(NumCores - 1))
                      /\ procs[p].earlier[1] = "Ok"
                         => procs[p].bind_to = LastChildCore(p)

C26_Witness ==
    /\ cfg.path = "reexec"
    /\ procs[Root].earlier = <<"Ok">> /\ Cardinality(Children(Root)) = 2
    /\ procs[Root].pc = "callback" /\ procs[Root].role = "client"
    /\ procs[Root].bind_to = 1

\* ---- C27: with only stderr_file configured and no debug override, no
\* process has a stream redirected: a forked worker (fork and centralized
\* paths) keeps both inherited streams, and on the re-exec path neither the
\* parent redirects itself nor is a child's stream set to the null device,
\* so the child inherits the unredirected streams.
C27_StderrOnly ==
    (~cfg.debug_env /\ ~cfg.stdout_file /\ cfg.stderr_file)
    => \A q \in Pids : procs[q].stdout = "inherit" /\ procs[q].stderr = "inherit"

C27_Witness ==
    /\ ~cfg.debug_env /\ ~cfg.stdout_file /\ cfg.stderr_file
    /\ \E q \in Pids : /\ StreamsSet(q) /\ procs[q].pc = "callback"
                       /\ cfg.path = "fork" /\ procs[q].opened_stderr_file
                       /\ procs[q].stderr = "inherit"

\* ---- C28: in the two-tier launch with secondary_run_client set,
\* main_run_client unset and a non-empty core set, validation does not
\* reject the launch; among the processes the launching process forks only
\* the main worker panics on its own (a callback that runs may panic with
\* anything), and it does so at the extraction of its callback,
\* after it has taken the main builder, built its inner manager and its
\* centralized adapter, without ever running a callback; the launching
\* process itself does not fail for it and goes on through the spawn loop to
\* the broker-or-wait branch.
C28_MainCallbackUnchecked ==
    (/\ cfg.path = "centralized" /\ cfg.cores # {}
     /\ cfg.secondary_run_client /\ ~cfg.main_run_client)
    => /\ procs[Root].result # "Err_illegal_argument"
       /\ procs[Root].role = "parent" => procs[Root].result # "panic"
       /\ \A q \in Pids :
            /\ (/\ procs[q].parent = Root /\ procs[q].result = "panic"
                /\ "run_client" \notin Events(q))
               => procs[q].role = "main"
            /\ procs[q].role = "main"
               => /\ procs[q].pc # "callback"
                  /\ "run_client" \notin Events(q)
                  /\ procs[q].result \in {"none", "Err_os", "panic"}
                  /\ procs[q].result = "panic"
                     => /\ LastEvent(q) = "build_on_port"
                        /\ "build_client" \in Events(q)
                        /\ procs[q].is_main
                        /\ ~procs[q].main_inner_mgr_builder
                        /\ Children(q) = {}

C28_Witness ==
    /\ cfg.path = "centralized" /\ cfg.secondary_run_client /\ ~cfg.main_run_client
    /\ procs[Root].pc \in {"broker", "wait"}
    /\ Len(procs[Root].handles) = 3
    /\ \E q \in Pids : procs[q].role = "main" /\ procs[q].result = "panic"
    /\ \E q \in Pids : procs[q].role = "secondary" /\ procs[q].pc = "callback"

====
